---- MODULE Spec2Model ----
(***************************************************************************)
(* PII leaf filters of hypertrace/collector: the URL-encoded filter        *)
(* (filters/urlencoded/filter.go) and the key-value filter                 *)
(* (filters/keyvalue), over the regex matcher and the redactors.           *)
(*                                                                         *)
(* Strings are Go strings: sequences of bytes (0..255).  Str turns a tuple *)
(* of one-character strings into such a sequence, so that escaping,        *)
(* sorting and case folding are computed on byte values as net/url does.   *)
(***************************************************************************)
EXTENDS Integers, Sequences, FiniteSets, TLC

\* ------------------------------------------------------------------------
\* Bytes and strings
\* ------------------------------------------------------------------------

\* The printable ASCII characters, code 32 (space) to 126 (~), in order
\* (the double quote, the backslash and the backtick are spelled out).
Ascii ==
  << " ", "!", "dquote", "#", "$", "%", "&", "'", "(", ")", "*", "+", ",", "-", ".", "/",
     "0", "1", "2", "3", "4", "5", "6", "7", "8", "9", ":", ";", "<", "=", ">", "?",
     "@", "A", "B", "C", "D", "E", "F", "G", "H", "I", "J", "K", "L", "M", "N", "O",
     "P", "Q", "R", "S", "T", "U", "V", "W", "X", "Y", "Z", "[", "backslash", "]", "^", "_",
     "backtick", "a", "b", "c", "d", "e", "f", "g", "h", "i", "j", "k", "l", "m", "n", "o",
     "p", "q", "r", "s", "t", "u", "v", "w", "x", "y", "z", "{", "|", "}", "~" >>

\* Byte value of a printable character.
Ord(c) == 31 + (CHOOSE i \in 1..Len(Ascii) : Ascii[i] = c)

\* The Go string spelled by a tuple of characters.
Str(t) == [i \in 1..Len(t) |-> Ord(t[i])]

\* s[from..] (1-based), empty when from is past the end.
Drop(s, n) == SubSeq(s, n + 1, Len(s))
Take(s, n) == SubSeq(s, 1, n)

\* strings.IndexByte: 1-based position of the first byte b in s, 0 if none.
RECURSIVE IndexByteFrom(_, _, _)
IndexByteFrom(s, b, i) ==
  IF i > Len(s) THEN 0 ELSE IF s[i] = b THEN i ELSE IndexByteFrom(s, b, i + 1)

IndexByte(s, b) == IndexByteFrom(s, b, 1)

\* strings.HasPrefix
HasPrefix(s, p) == Len(p) <= Len(s) /\ Take(s, Len(p)) = p

\* strings.Index: 1-based position of the first occurrence of t in s, 0 if none.
RECURSIVE IndexFrom(_, _, _)
IndexFrom(s, t, i) ==
  IF i + Len(t) - 1 > Len(s) THEN 0
  ELSE IF SubSeq(s, i, i + Len(t) - 1) = t THEN i
  ELSE IndexFrom(s, t, i + 1)

Index(s, t) == IndexFrom(s, t, 1)

\* strings.Contains
Contains(s, t) == Len(t) = 0 \/ Index(s, t) > 0

\* Byte-wise lexicographic order of Go strings (s < t).
RECURSIVE StrLess(_, _)
StrLess(s, t) ==
  IF Len(t) = 0 THEN FALSE
  ELSE IF Len(s) = 0 THEN TRUE
  ELSE IF s[1] # t[1] THEN s[1] < t[1]
  ELSE StrLess(Tail(s), Tail(t))

\* strings.Join
RECURSIVE Join(_, _)
Join(ss, sep) ==
  IF Len(ss) = 0 THEN <<>>
  ELSE IF Len(ss) = 1 THEN ss[1]
  ELSE ss[1] \o sep \o Join(Tail(ss), sep)

\* Byte values by character, computed once: B["%"] = 37.
B == [c \in {Ascii[i] : i \in 1..Len(Ascii)} |-> Ord(c)]

\* ------------------------------------------------------------------------
\* net/url, as called by the filter: escaping
\* ------------------------------------------------------------------------

IsDigit(c) == B["0"] <= c /\ c <= B["9"]
IsLower(c) == B["a"] <= c /\ c <= B["z"]
IsUpper(c) == B["A"] <= c /\ c <= B["Z"]
IsAlnum(c) == IsDigit(c) \/ IsLower(c) \/ IsUpper(c)

\* url.ishex / url.unhex
IsHex(c) == IsDigit(c) \/ (B["a"] <= c /\ c <= B["f"]) \/ (B["A"] <= c /\ c <= B["F"])
Unhex(c) ==
  IF IsDigit(c) THEN c - B["0"]
  ELSE IF B["a"] <= c /\ c <= B["f"] THEN c - B["a"] + 10
  ELSE IF B["A"] <= c /\ c <= B["F"] THEN c - B["A"] + 10
  ELSE 0

\* "0123456789ABCDEF"[n]
UpperHex(n) == IF n < 10 THEN B["0"] + n ELSE B["A"] + (n - 10)

\* url.shouldEscape(c, mode), mode one of "path", "host", "query", "fragment".
ShouldEscape(c, mode) ==
  IF IsAlnum(c) THEN FALSE
  ELSE IF mode = "host" /\ c \in { B["!"], B["$"], B["&"], B["'"], B["("], B[")"],
                                    B["*"], B["+"], B[","], B[";"], B["="], B[":"],
                                    B["["], B["]"], B["<"], B[">"], B["dquote"] }
       THEN FALSE
  ELSE IF c \in { B["-"], B["_"], B["."], B["~"] } THEN FALSE
  ELSE IF c \in { B["$"], B["&"], B["+"], B[","], B["/"], B[":"], B[";"], B["="],
                  B["?"], B["@"] }
       THEN CASE mode = "path"     -> c = B["?"]
              [] mode = "query"    -> TRUE
              [] mode = "fragment" -> FALSE
              [] OTHER             -> TRUE
  ELSE IF mode = "fragment" /\ c \in { B["!"], B["("], B[")"], B["*"] } THEN FALSE
  ELSE TRUE

\* url.escape(s, mode)
RECURSIVE Escape(_, _)
Escape(s, mode) ==
  IF Len(s) = 0 THEN <<>>
  ELSE LET c == Head(s) IN
       (IF ShouldEscape(c, mode)
        THEN IF c = B[" "] /\ mode = "query"
             THEN << B["+"] >>
             ELSE << B["%"], UpperHex(c \div 16), UpperHex(c % 16) >>
        ELSE << c >>) \o Escape(Tail(s), mode)

\* First pass of url.unescape(s, mode): is every escape well formed (and, for
\* a host, is every byte allowed)?
RECURSIVE UnescapeOk(_, _)
UnescapeOk(s, mode) ==
  IF Len(s) = 0 THEN TRUE
  ELSE IF Head(s) = B["%"]
       THEN /\ Len(s) >= 3
            /\ IsHex(s[2])
            /\ IsHex(s[3])
            /\ (mode = "host" => Unhex(s[2]) >= 8)
            /\ UnescapeOk(Drop(s, 3), mode)
  ELSE /\ ~(mode = "host" /\ Head(s) < 128 /\ ShouldEscape(Head(s), "host"))
       /\ UnescapeOk(Tail(s), mode)

\* Second pass of url.unescape(s, mode): the decoded bytes.
RECURSIVE UnescapeBytes(_, _)
UnescapeBytes(s, mode) ==
  IF Len(s) = 0 THEN <<>>
  ELSE IF Head(s) = B["%"]
       THEN << Unhex(s[2]) * 16 + Unhex(s[3]) >> \o UnescapeBytes(Drop(s, 3), mode)
  ELSE IF Head(s) = B["+"] /\ mode = "query"
       THEN << B[" "] >> \o UnescapeBytes(Tail(s), mode)
  ELSE << Head(s) >> \o UnescapeBytes(Tail(s), mode)

\* url.unescape(s, mode): [ok, s]; s is meaningful only when ok.
Unescape(s, mode) ==
  IF UnescapeOk(s, mode) THEN [ok |-> TRUE, s |-> UnescapeBytes(s, mode)]
  ELSE [ok |-> FALSE, s |-> <<>>]

\* url.QueryEscape / url.QueryUnescape
QueryEscape(s) == Escape(s, "query")
QueryUnescape(s) == Unescape(s, "query")

\* url.validEncoded(s, mode)
ValidEncoded(s, mode) ==
  \A i \in 1..Len(s) :
    \/ s[i] \in { B["!"], B["$"], B["&"], B["'"], B["("], B[")"], B["*"], B["+"],
                  B[","], B[";"], B["="], B[":"], B["@"], B["["], B["]"], B["%"] }
    \/ ~ShouldEscape(s[i], mode)

\* ------------------------------------------------------------------------
\* net/url, as called by the filter: url.Values, ParseQuery, Encode
\* ------------------------------------------------------------------------

\* A Go map is a function; map[k] = v adds or overwrites one key.
EmptyMap == [x \in {} |-> x]
MapPut(m, k, v) == [x \in (DOMAIN m) \cup {k} |-> IF x = k THEN v ELSE m[x]]

\* url.Values.Add: v[key] = append(v[key], value)
ValuesAdd(v, k, value) ==
  MapPut(v, k, IF k \in DOMAIN v THEN Append(v[k], value) ELSE << value >>)

\* One pair of url.parseQuery: cut at its first "=" (at position j, 0 if
\* none), both halves unescaped: [ok, k, v].
UnescapedPair(k, v) ==
  [ok |-> k.ok /\ v.ok, k |-> k.s, v |-> v.s]

ParsePairAt(pair, j) ==
  UnescapedPair(QueryUnescape(IF j > 0 THEN Take(pair, j - 1) ELSE pair),
                QueryUnescape(IF j > 0 THEN Drop(pair, j) ELSE <<>>))

ParsePair(pair) == ParsePairAt(pair, IndexByte(pair, B["="]))

\* The loop of url.parseQuery: pairs are cut at "&" (the next one at position
\* i, 0 if none); an empty pair is skipped; a pair that fails to unescape is
\* skipped and makes the whole call return an error.  (The inputs carry no
\* ";".)  ParseQueryLoop, ParseQueryCut and ParseQueryAdd are one loop.
RECURSIVE ParseQueryLoop(_, _, _)

ParseQueryAdd(rest, m, ok, kv) ==
  IF ~kv.ok THEN ParseQueryLoop(rest, m, FALSE)
  ELSE ParseQueryLoop(rest, ValuesAdd(m, kv.k, kv.v), ok)

ParseQueryCut(pair, rest, m, ok) ==
  IF Len(pair) = 0 THEN ParseQueryLoop(rest, m, ok)
  ELSE ParseQueryAdd(rest, m, ok, ParsePair(pair))

ParseQueryAt(query, i, m, ok) ==
  IF i > 0 THEN ParseQueryCut(Take(query, i - 1), Drop(query, i), m, ok)
  ELSE ParseQueryCut(query, <<>>, m, ok)

ParseQueryLoop(query, m, ok) ==
  IF Len(query) = 0 THEN [ok |-> ok, m |-> m]
  ELSE ParseQueryAt(query, IndexByte(query, B["&"]), m, ok)

\* url.ParseQuery: [ok, m]
ParseQuery(query) == ParseQueryLoop(query, EmptyMap, TRUE)

\* sort.Strings over the keys of a map.
RECURSIVE SortedKeys(_)
SortedKeys(S) ==
  IF S = {} THEN <<>>
  ELSE LET least == CHOOSE k \in S : \A o \in S \ {k} : StrLess(k, o)
       IN  << least >> \o SortedKeys(S \ {least})

\* The "k=v" pieces url.Values.Encode writes for one key.
EncodeKey(k, vs) == [i \in 1..Len(vs) |-> QueryEscape(k) \o << B["="] >> \o QueryEscape(vs[i])]

RECURSIVE EncodePieces(_, _)
EncodePieces(v, keys) ==
  IF Len(keys) = 0 THEN <<>>
  ELSE EncodeKey(Head(keys), v[Head(keys)]) \o EncodePieces(v, Tail(keys))

\* url.Values.Encode: keys sorted, values of a key in order, joined by "&".
Encode(v) == Join(EncodePieces(v, SortedKeys(DOMAIN v)), << B["&"] >>)

\* ------------------------------------------------------------------------
\* net/url, as called by the filter: url.Parse and URL.String
\* (the inputs carry no userinfo "@" and no IPv6 "[" host)
\* ------------------------------------------------------------------------

\* strings.LastIndexByte, 1-based, 0 if none.
RECURSIVE LastIndexByteFrom(_, _, _)
LastIndexByteFrom(s, b, i) ==
  IF i < 1 THEN 0 ELSE IF s[i] = b THEN i ELSE LastIndexByteFrom(s, b, i - 1)

LastIndexByte(s, b) == LastIndexByteFrom(s, b, Len(s))

\* strings.ToLower on ASCII
ToLower(s) == [i \in 1..Len(s) |-> IF IsUpper(s[i]) THEN s[i] + 32 ELSE s[i]]

\* strings.Count(s, "?")
CountByte(s, b) == Cardinality({i \in 1..Len(s) : s[i] = b})

\* url.stringContainsCTLByte
ContainsCTLByte(s) == \E i \in 1..Len(s) : s[i] < 32 \/ s[i] = 127

\* url.getScheme: [ok, scheme, rest]
RECURSIVE GetSchemeLoop(_, _)
GetSchemeLoop(raw, i) ==
  IF i > Len(raw) THEN [ok |-> TRUE, scheme |-> <<>>, rest |-> raw]
  ELSE LET c == raw[i] IN
       IF IsLower(c) \/ IsUpper(c) THEN GetSchemeLoop(raw, i + 1)
       ELSE IF IsDigit(c) \/ c \in { B["+"], B["-"], B["."] }
            THEN IF i = 1 THEN [ok |-> TRUE, scheme |-> <<>>, rest |-> raw]
                 ELSE GetSchemeLoop(raw, i + 1)
       ELSE IF c = B[":"]
            THEN IF i = 1 THEN [ok |-> FALSE, scheme |-> <<>>, rest |-> <<>>]
                 ELSE [ok |-> TRUE, scheme |-> Take(raw, i - 1), rest |-> Drop(raw, i)]
       ELSE [ok |-> TRUE, scheme |-> <<>>, rest |-> raw]

GetScheme(raw) == GetSchemeLoop(raw, 1)

\* url.validOptionalPort
ValidOptionalPort(port) ==
  \/ Len(port) = 0
  \/ /\ port[1] = B[":"]
     /\ \A i \in 2..Len(port) : IsDigit(port[i])

\* url.parseHost: [ok, s]
ParseHost(host) ==
  LET i == LastIndexByte(host, B[":"]) IN
  IF i > 0 /\ ~ValidOptionalPort(Drop(host, i - 1))
  THEN [ok |-> FALSE, s |-> <<>>]
  ELSE Unescape(host, "host")

\* The zero url.URL
ZeroURL ==
  [Scheme |-> <<>>, Opaque |-> <<>>, Host |-> <<>>, Path |-> <<>>, RawPath |-> <<>>,
   ForceQuery |-> FALSE, RawQuery |-> <<>>, Fragment |-> <<>>, RawFragment |-> <<>>]

\* A failed parse.
ParseError == [ok |-> FALSE, u |-> ZeroURL]

\* URL.setPath: p unescaped is the Path; RawPath is kept only when p is not
\* the default encoding of the Path.
SetPathTo(u, p, path) ==
  IF ~path.ok THEN ParseError
  ELSE [ok |-> TRUE,
        u  |-> [u EXCEPT !.Path = path.s,
                         !.RawPath = IF Escape(path.s, "path") = p THEN <<>> ELSE p]]

SetPath(u, p) == SetPathTo(u, p, Unescape(p, "path"))

\* URL.setFragment
SetFragmentTo(u, f, frag) ==
  IF ~frag.ok THEN ParseError
  ELSE [ok |-> TRUE,
        u  |-> [u EXCEPT !.Fragment = frag.s,
                         !.RawFragment = IF Escape(frag.s, "fragment") = f THEN <<>> ELSE f]]

SetFragment(u, f) == SetFragmentTo(u, f, Unescape(f, "fragment"))

\* url.parse, the authority: "//" host up to the next "/" (at position i of
\* the authority, 0 if none), then the path.
ParseWithHost(u, host, path) ==
  IF ~host.ok THEN ParseError ELSE SetPath([u EXCEPT !.Host = host.s], path)

ParseAuthorityAt(u, auth, i) ==
  IF i > 0 THEN ParseWithHost(u, ParseHost(Take(auth, i - 1)), Drop(auth, i - 1))
  ELSE ParseWithHost(u, ParseHost(auth), <<>>)

ParseAuthority(u, auth) == ParseAuthorityAt(u, auth, IndexByte(auth, B["/"]))

\* The first segment of a path: up to its first "/" (at position i, 0 if none).
FirstSegmentAt(path, i) == IF i > 0 THEN Take(path, i - 1) ELSE path
FirstSegment(path) == FirstSegmentAt(path, IndexByte(path, B["/"]))

\* url.parse after the scheme and the query are cut off: rest is opaque after
\* a scheme when it has no leading "/", an authority and a path after "//",
\* a path otherwise.
ParseHier(u, rest) ==
  IF ~HasPrefix(rest, << B["/"] >>) /\ Len(u.Scheme) > 0
  THEN [ok |-> TRUE, u |-> [u EXCEPT !.Opaque = rest]]
  ELSE IF ~HasPrefix(rest, << B["/"] >>) /\ IndexByte(FirstSegment(rest), B[":"]) > 0
  THEN ParseError
  ELSE IF /\ HasPrefix(rest, << B["/"], B["/"] >>)
          /\ (Len(u.Scheme) > 0 \/ ~HasPrefix(rest, << B["/"], B["/"], B["/"] >>))
  THEN ParseAuthority(u, Drop(rest, 2))
  ELSE SetPath(u, rest)

\* url.parse after the scheme: a lone trailing "?" forces an empty query,
\* else the query starts after the first "?" (at position q, 0 if none).
ParseQueryPartAt(scheme, rest, q) ==
  IF Len(rest) > 0 /\ rest[Len(rest)] = B["?"] /\ CountByte(rest, B["?"]) = 1
  THEN ParseHier([ZeroURL EXCEPT !.Scheme = scheme, !.ForceQuery = TRUE],
                 Take(rest, Len(rest) - 1))
  ELSE IF q > 0
  THEN ParseHier([ZeroURL EXCEPT !.Scheme = scheme, !.RawQuery = Drop(rest, q)],
                 Take(rest, q - 1))
  ELSE ParseHier([ZeroURL EXCEPT !.Scheme = scheme], rest)

ParseQueryPart(scheme, rest) == ParseQueryPartAt(scheme, rest, IndexByte(rest, B["?"]))

\* url.parse(rawURL, viaRequest = false): [ok, u]
ParseWithScheme(raw, sch) ==
  IF ~sch.ok THEN ParseError ELSE ParseQueryPart(ToLower(sch.scheme), sch.rest)

ParseNoFragment(raw) ==
  IF ContainsCTLByte(raw) THEN ParseError
  ELSE IF raw = << B["*"] >> THEN [ok |-> TRUE, u |-> [ZeroURL EXCEPT !.Path = raw]]
  ELSE ParseWithScheme(raw, GetScheme(raw))

\* url.Parse: the fragment is cut at the first "#" (at position h, 0 if
\* none), the rest parsed, the fragment set when it is not empty.
ParseWithFragment(r, frag) ==
  IF ~r.ok \/ Len(frag) = 0 THEN r ELSE SetFragment(r.u, frag)

ParseAt(raw, h) ==
  IF h > 0 THEN ParseWithFragment(ParseNoFragment(Take(raw, h - 1)), Drop(raw, h))
  ELSE ParseNoFragment(raw)

Parse(raw) == ParseAt(raw, IndexByte(raw, B["#"]))

\* URL.EscapedPath: RawPath when it is a valid encoding of Path, else the
\* default encoding.
EscapedPathOf(u, unescaped) ==
  IF /\ Len(u.RawPath) > 0
     /\ ValidEncoded(u.RawPath, "path")
     /\ unescaped.ok
     /\ unescaped.s = u.Path
  THEN u.RawPath
  ELSE IF u.Path = << B["*"] >> THEN u.Path
  ELSE Escape(u.Path, "path")

EscapedPath(u) == EscapedPathOf(u, Unescape(u.RawPath, "path"))

\* URL.EscapedFragment
EscapedFragmentOf(u, unescaped) ==
  IF /\ Len(u.RawFragment) > 0
     /\ ValidEncoded(u.RawFragment, "fragment")
     /\ unescaped.ok
     /\ unescaped.s = u.Fragment
  THEN u.RawFragment
  ELSE Escape(u.Fragment, "fragment")

EscapedFragment(u) == EscapedFragmentOf(u, Unescape(u.RawFragment, "fragment"))

\* URL.String, the part between the scheme and the query: the opaque part,
\* or "//" host and the escaped path (after "/" when the path is relative and
\* there is a host, after "./" when the string would start with a segment
\* holding a colon).
URLStringBody(u, path) ==
  IF Len(u.Opaque) > 0 THEN u.Opaque
  ELSE (IF (Len(u.Scheme) > 0 \/ Len(u.Host) > 0) /\ (Len(u.Host) > 0 \/ Len(u.Path) > 0)
        THEN << B["/"], B["/"] >> \o Escape(u.Host, "host")
        ELSE <<>>)
       \o (IF Len(path) > 0 /\ path[1] # B["/"] /\ Len(u.Host) > 0
           THEN << B["/"] >>
           ELSE IF /\ Len(u.Scheme) = 0
                   /\ Len(u.Host) = 0
                   /\ IndexByte(FirstSegment(path), B[":"]) > 0
           THEN << B["."], B["/"] >>
           ELSE <<>>)
       \o path

\* URL.String
URLString(u) ==
  (IF Len(u.Scheme) > 0 THEN u.Scheme \o << B[":"] >> ELSE <<>>)
  \o URLStringBody(u, EscapedPath(u))
  \o (IF u.ForceQuery \/ Len(u.RawQuery) > 0 THEN << B["?"] >> \o u.RawQuery ELSE <<>>)
  \o (IF Len(u.Fragment) > 0 THEN << B["#"] >> \o EscapedFragment(u) ELSE <<>>)

\* ------------------------------------------------------------------------
\* Redactors and the regex matcher (package redaction, package regexmatcher)
\*
\* A rule is [pattern, strategy, session]; a pattern is [anchored, lit]:
\* the regular expression ^lit$ when anchored, the literal lit otherwise.
\* ------------------------------------------------------------------------

\* The redaction marker "***".
Marker == Str(<< "*", "*", "*" >>)

\* redact: the fixed marker.
Redact(v) == Marker

\* truncate: first and last character kept around the marker when the input
\* has at least two characters, the marker alone otherwise.
Truncate(v) ==
  IF Len(v) >= 2 THEN << v[1] >> \o Marker \o << v[Len(v)] >> ELSE Marker

\* A checksum of the bytes of v, the stand-in for the cryptographic digest.
RECURSIVE Checksum(_, _)
Checksum(v, acc) ==
  IF Len(v) = 0 THEN acc
  ELSE Checksum(Tail(v), (acc * 31 + Head(v) + 7) % 256)

LowerHex(n) == IF n < 10 THEN B["0"] + n ELSE B["a"] + (n - 10)

\* hash: a stable hex digest of v (one byte of digest, two hex digits).
Hash(v) == LET d == Checksum(v, Len(v)) IN << LowerHex(d \div 16), LowerHex(d % 16) >>

\* The strategy of a rule applied to a string.
ApplyStrategy(strategy, v) ==
  CASE strategy = "redact"   -> Redact(v)
    [] strategy = "hash"     -> Hash(v)
    [] strategy = "truncate" -> Truncate(v)

\* regexp.MatchString
MatchString(pattern, str) ==
  IF pattern.anchored THEN str = pattern.lit ELSE Contains(str, pattern.lit)

\* regexp.ReplaceAllStringFunc with the strategy as the function: every
\* leftmost non-overlapping match is replaced by the strategy of the match.
RECURSIVE ReplaceAll(_, _, _)
ReplaceAll(pattern, strategy, str) ==
  IF pattern.anchored
  THEN IF str = pattern.lit THEN ApplyStrategy(strategy, str) ELSE str
  ELSE LET i == Index(str, pattern.lit) IN
       IF i = 0 \/ Len(pattern.lit) = 0 THEN str
       ELSE Take(str, i - 1) \o ApplyStrategy(strategy, pattern.lit)
            \o ReplaceAll(pattern, strategy, Drop(str, i + Len(pattern.lit) - 1))

\* Matcher.FilterKeyRegexs: the first key rule whose pattern matches the
\* truncated key redacts the whole value.
RECURSIVE FilterKeyRegexsFrom(_, _, _)
FilterKeyRegexsFrom(keyRules, truncatedKey, value) ==
  IF Len(keyRules) = 0
  THEN [isRedacted |-> FALSE, isSession |-> FALSE, newValue |-> value]
  ELSE IF MatchString(Head(keyRules).pattern, truncatedKey)
       THEN [isRedacted |-> TRUE, isSession |-> Head(keyRules).session,
             newValue |-> ApplyStrategy(Head(keyRules).strategy, value)]
  ELSE FilterKeyRegexsFrom(Tail(keyRules), truncatedKey, value)

FilterKeyRegexs(m, truncatedKey, originalKey, value, path) ==
  FilterKeyRegexsFrom(m.keyRules, truncatedKey, value)

\* Matcher.FilterStringValueRegexs: the value rules applied in order, each to
\* the result of the previous one; redacted when some rule matched.
RECURSIVE FilterStringValueRegexsFrom(_, _, _)
FilterStringValueRegexsFrom(valueRules, value, redacted) ==
  IF Len(valueRules) = 0 THEN [isRedacted |-> redacted, newValue |-> value]
  ELSE LET r == Head(valueRules) IN
       IF MatchString(r.pattern, value)
       THEN FilterStringValueRegexsFrom(Tail(valueRules),
                                        ReplaceAll(r.pattern, r.strategy, value), TRUE)
       ELSE FilterStringValueRegexsFrom(Tail(valueRules), value, redacted)

FilterStringValueRegexs(m, value, originalKey, path) ==
  FilterStringValueRegexsFrom(m.valueRules, value, FALSE)

\* Matcher.GetTruncatedKey: the key without its longest known prefix.
GetTruncatedKey(m, key) ==
  LET matching == {pre \in m.prefixes : HasPrefix(key, pre)} IN
  IF matching = {} THEN key
  ELSE LET longest == CHOOSE pre \in matching : \A o \in matching : Len(o) <= Len(pre)
       IN  Drop(key, Len(longest))

\* ------------------------------------------------------------------------
\* processors.ParsedAttribute, filters.Attribute, errors
\* ------------------------------------------------------------------------

\* A Go map value that may be nil: [nil, kv].
NilMap == [nil |-> TRUE, kv |-> EmptyMap]
MakeMap(kv) == [nil |-> FALSE, kv |-> kv]

\* *processors.ParsedAttribute: nil, or the two maps.
NilParsedAttribute == [nil |-> TRUE, Redacted |-> NilMap, Flattened |-> NilMap]
ParsedAttribute(redacted, flattened) ==
  [nil |-> FALSE, Redacted |-> redacted, Flattened |-> flattened]

\* *filters.Attribute: nil, or a key and a string value.
NilAttribute == [nil |-> TRUE, Key |-> <<>>, Value |-> <<>>]

\* The session side-attribute's key.
SessionID == Str(<< "s", "e", "s", "s", "i", "o", "n", ".", "i", "d" >>)

\* error values
NoError == "nil"
ErrUnprocessableValue == "ErrUnprocessableValue"

\* ------------------------------------------------------------------------
\* filters/urlencoded/filter.go
\* ------------------------------------------------------------------------

urlAttributeStr == Str(<< "h", "t", "t", "p", ".", "u", "r", "l" >>)

\* strconv.Itoa for a non-negative index (fmt's %d).
RECURSIVE Itoa(_)
Itoa(n) == IF n < 10 THEN << B["0"] + n >> ELSE Itoa(n \div 10) \o << B["0"] + (n % 10) >>

\* fqn := fmt.Sprintf("%s.%s", key, param)
Fqn(key, param) == key \o << B["."] >> \o param

\* The match path of one value: the parameter for http.url, else $.param or
\* $.param[idx] when the parameter has several values.
MatchPath(isURLAttr, param, nvalues, idx) ==
  IF isURLAttr THEN param
  ELSE IF nvalues > 1
       THEN << B["$"], B["."] >> \o param \o << B["["] >> \o Itoa(idx) \o << B["]"] >>
  ELSE << B["$"], B["."] >> \o param

\* Flatten with the assignment left out.
Flatten_Forgets(flattened, fqn, value) == flattened

\* Flatten that keeps the first value of a parameter instead of the last.
Flatten_KeepsFirst(flattened, fqn, value) ==
  IF fqn \in DOMAIN flattened THEN flattened ELSE MapPut(flattened, fqn, value)

\* Flatten that records only the parameter visited first.
Flatten_FirstVisitedOnly(flattened, fqn, value) ==
  IF DOMAIN flattened \subseteq {fqn} THEN MapPut(flattened, fqn, value) ELSE flattened

\* attr.Flattened[fqn] = value: every value is recorded, a later value of the
\* same parameter overwriting an earlier one.
Flatten(flattened, fqn, value) == MapPut(flattened, fqn, value)

\* Record that stores the replacement instead of the original.
Record_StoresReplacement(redacted, fqn, value, byKey, byValue) ==
  IF byKey.isRedacted THEN MapPut(redacted, fqn, byKey.newValue)
  ELSE IF byValue.isRedacted THEN MapPut(redacted, fqn, byValue.newValue)
  ELSE redacted

\* attr.Redacted[fqn] = value, in the two branches that redact.
Record(redacted, fqn, value, byKey, byValue) ==
  IF byKey.isRedacted \/ byValue.isRedacted THEN MapPut(redacted, fqn, value)
  ELSE redacted

\* Emitted with the key rule's replacement dropped: the original is added.
Emitted_KeepsKeyMatched(value, byKey, byValue) ==
  IF byKey.isRedacted THEN value
  ELSE IF byValue.isRedacted THEN byValue.newValue
  ELSE value

\* Emitted with the value rules' replacement dropped.
Emitted_KeepsValueMatched(value, byKey, byValue) ==
  IF byKey.isRedacted THEN byKey.newValue ELSE value

\* The string handed to v.Add(param, _): the key rule's replacement, else the
\* value rules' replacement, else the value itself.
Emitted(value, byKey, byValue) ==
  IF byKey.isRedacted THEN byKey.newValue
  ELSE IF byValue.isRedacted THEN byValue.newValue
  ELSE value

\* What the value rules answer when they are not asked.
NotAsked(value) == [isRedacted |-> FALSE, newValue |-> value]

\* One iteration of the inner loop, given the answers of the matcher.  acc is
\* [v, Redacted, Flattened, matcherCalls]: the url.Values being built, the
\* two maps of the manifest, and how many times the matcher was asked.
ValueStepWith(acc, param, fqn, value, byKey, byValue) ==
  [v            |-> ValuesAdd(acc.v, param, Emitted(value, byKey, byValue)),
   Redacted     |-> Record(acc.Redacted, fqn, value, byKey, byValue),
   Flattened    |-> Flatten(acc.Flattened, fqn, value),
   matcherCalls |-> acc.matcherCalls + (IF byKey.isRedacted THEN 1 ELSE 2)]

\* ValueStepByKey with the value rules asked first: a key rule counts only
\* for a value no value rule matched.
ValueStepByKey_ValueWins(m, key, acc, param, value, path, byKey) ==
  ValueStepWith(acc, param, Fqn(key, param), value,
                IF FilterStringValueRegexs(m, value, key, path).isRedacted
                THEN [isRedacted |-> FALSE, isSession |-> FALSE, newValue |-> value]
                ELSE byKey,
                FilterStringValueRegexs(m, value, key, path))

\* The value rules are asked only when no key rule matched.
ValueStepByKey(m, key, acc, param, value, path, byKey) ==
  ValueStepWith(acc, param, Fqn(key, param), value, byKey,
                IF byKey.isRedacted THEN NotAsked(value)
                ELSE FilterStringValueRegexs(m, value, key, path))

ValueStep(m, key, acc, param, value, path) ==
  ValueStepByKey(m, key, acc, param, value, path,
                 FilterKeyRegexs(m, param, key, value, path))

\* The inner loop, over the values of one parameter from index idx (0-based).
RECURSIVE ValuesLoop(_, _, _, _, _, _, _)
ValuesLoop(m, key, isURLAttr, param, values, idx, acc) ==
  IF idx >= Len(values) THEN acc
  ELSE ValuesLoop(m, key, isURLAttr, param, values, idx + 1,
                  ValueStep(m, key, acc, param, values[idx + 1],
                            MatchPath(isURLAttr, param, Len(values), idx)))

\* The outer loop, over the parameters in the order the map iteration yields.
RECURSIVE ParamsLoop(_, _, _, _, _, _)
ParamsLoop(m, key, isURLAttr, params, order, acc) ==
  IF Len(order) = 0 THEN acc
  ELSE ParamsLoop(m, key, isURLAttr, params, Tail(order),
                  ValuesLoop(m, key, isURLAttr, Head(order), params[Head(order)], 0, acc))

\* The orders in which a range over a map with key set S can yield its keys.
IterationOrders(S) ==
  {o \in [1..Cardinality(S) -> S] : \A i, j \in 1..Cardinality(S) : i # j => o[i] # o[j]}

\* IsEmptyValue with the early return missing.
IsEmptyValue_Never(value) == FALSE

\* The first early return: len(value.StringVal()) == 0.
IsEmptyValue(value) == Len(value) = 0

\* ParseFailed with the error of url.ParseQuery ignored.
ParseFailed_IgnoresQueryError(isURLAttr, u, params) == isURLAttr /\ ~u.ok

\* The two error returns: url.Parse failed for http.url, or url.ParseQuery
\* failed.  u and params are the results of the two parsers.
ParseFailed(isURLAttr, u, params) == (isURLAttr /\ ~u.ok) \/ ~params.ok

\* Rewritten with the value written whether or not something was redacted.
Rewritten_Always(isURLAttr, u, redacted, encoded, value) ==
  IF isURLAttr THEN URLString([u EXCEPT !.RawQuery = encoded]) ELSE encoded

\* Whether value.SetStringVal is called: len(attr.Redacted) > 0.
Written(redacted) == Cardinality(DOMAIN redacted) > 0

\* Rewritten with the encoded query written for http.url too.
Rewritten_QueryOnly(isURLAttr, u, redacted, encoded, value) ==
  IF Cardinality(DOMAIN redacted) > 0 THEN encoded ELSE value

\* The attribute's value at the end of the call: rewritten only when
\* something was redacted, as the whole URL for http.url.
Rewritten(isURLAttr, u, redacted, encoded, value) ==
  IF Cardinality(DOMAIN redacted) > 0
  THEN IF isURLAttr THEN URLString([u EXCEPT !.RawQuery = encoded]) ELSE encoded
  ELSE value

\* What the call parses: the URL (for http.url only) and the form, which is
\* the URL's query for http.url and the whole value otherwise.
ParsedURL(isURLAttr, value) ==
  IF isURLAttr THEN Parse(value) ELSE [ok |-> TRUE, u |-> ZeroURL]

ParsedForm(isURLAttr, u, value) ==
  ParseQuery(IF isURLAttr THEN u.u.RawQuery ELSE value)

\* The accumulator before the loops: v := url.Values{} and the two empty maps.
EmptyAcc ==
  [v |-> EmptyMap, Redacted |-> EmptyMap, Flattened |-> EmptyMap, matcherCalls |-> 0]

\* The end of the call, after the loops: the manifest is returned, the value
\* rewritten when something was redacted.
RedactDone(isURLAttr, u, value, acc) ==
  [attr  |-> ParsedAttribute(MakeMap(acc.Redacted), MakeMap(acc.Flattened)),
   err   |-> NoError,
   value |-> Rewritten(isURLAttr, u, acc.Redacted, Encode(acc.v), value),
   written |-> Written(acc.Redacted),
   matcherCalls |-> acc.matcherCalls]

\* The call after its parsers ran: the error return, or the loops.
RedactParsed(m, key, value, order, isURLAttr, u, params) ==
  IF ParseFailed(isURLAttr, u, params)
  THEN [attr |-> NilParsedAttribute, err |-> ErrUnprocessableValue,
        value |-> value, written |-> FALSE, matcherCalls |-> 0]
  ELSE RedactDone(isURLAttr, u.u, value,
                  ParamsLoop(m, key, isURLAttr, params.m, order, EmptyAcc))

RedactURL(m, key, value, order, isURLAttr, u) ==
  RedactParsed(m, key, value, order, isURLAttr, u, ParsedForm(isURLAttr, u, value))

\* urlEncodedFilter.RedactAttribute(key, value) when the map iteration yields
\* the parameters in the order given: the returned manifest and error, the
\* attribute's string value after the call, and the matcher calls made.
UrlEncodedRedactAttribute(m, key, value, order) ==
  IF IsEmptyValue(value)
  THEN [attr |-> NilParsedAttribute, err |-> NoError, value |-> value,
        written |-> FALSE, matcherCalls |-> 0]
  ELSE RedactURL(m, key, value, order, key = urlAttributeStr,
                 ParsedURL(key = urlAttributeStr, value))

\* The parameters the call ranges over (none when it returns early).
RangedParamsOf(isURLAttr, u, params) ==
  IF ParseFailed(isURLAttr, u, params) THEN {} ELSE DOMAIN params.m

RangedParamsURL(isURLAttr, u, value) ==
  RangedParamsOf(isURLAttr, u, ParsedForm(isURLAttr, u, value))

RangedParams(key, value) ==
  IF IsEmptyValue(value) THEN {}
  ELSE RangedParamsURL(key = urlAttributeStr, ParsedURL(key = urlAttributeStr, value), value)

\* ------------------------------------------------------------------------
\* filters/keyvalue/filter.go
\* ------------------------------------------------------------------------

\* SideAttribute that does not look at isSession.
SideAttribute_Always(byKey) ==
  [nil |-> FALSE, Key |-> SessionID, Value |-> byKey.newValue]

\* The side attribute of a key-rule match: session.id with the redacted
\* value when the rule is a session rule, nil otherwise.
SideAttribute(byKey) ==
  IF byKey.isSession
  THEN [nil |-> FALSE, Key |-> SessionID, Value |-> byKey.newValue]
  ELSE NilAttribute

\* KeyValueManifest that fills Flattened as well.
KeyValueManifest_Flattens(key, value) ==
  ParsedAttribute(MakeMap(MapPut(EmptyMap, key, value)),
                  MakeMap(MapPut(EmptyMap, key, value)))

\* The manifest of a match: Redacted with the one entry key -> original
\* value, Flattened left nil.
KeyValueManifest(key, value) ==
  ParsedAttribute(MakeMap(MapPut(EmptyMap, key, value)), NilMap)

\* The value rules' turn, after no key rule matched.
KeyValueByValue(key, value, byValue) ==
  IF byValue.isRedacted
  THEN [attr |-> KeyValueManifest(key, value), newAttr |-> NilAttribute,
        err |-> NoError, value |-> byValue.newValue, written |-> TRUE,
        matcherCalls |-> 3]
  ELSE [attr |-> NilParsedAttribute, newAttr |-> NilAttribute, err |-> NoError,
        value |-> value, written |-> FALSE, matcherCalls |-> 3]

\* The key rules' turn, on the truncated key.
KeyValueByKey(m, key, value, byKey) ==
  IF byKey.isRedacted
  THEN [attr |-> KeyValueManifest(key, value), newAttr |-> SideAttribute(byKey),
        err |-> NoError, value |-> byKey.newValue, written |-> TRUE,
        matcherCalls |-> 2]
  ELSE KeyValueByValue(key, value, FilterStringValueRegexs(m, value, key, <<>>))

\* keyValueFilter.RedactAttribute(key, value): the manifest, the side
\* attribute, the error, the attribute's value after the call, and the
\* matcher calls made (GetTruncatedKey counted).
KeyValueRedactAttribute(m, key, value) ==
  IF Len(value) = 0
  THEN [attr |-> NilParsedAttribute, newAttr |-> NilAttribute, err |-> NoError,
        value |-> value, written |-> FALSE, matcherCalls |-> 0]
  ELSE KeyValueByKey(m, key, value,
                     FilterKeyRegexs(m, GetTruncatedKey(m, key), key, value, <<>>))

\* ------------------------------------------------------------------------
\* processors/tenantidprocessor
\* ------------------------------------------------------------------------

\* The processor's configuration defaults.
defaultHeaderName == "x-tenant-id"
defaultAttributeKey == "tenant-id"

\* The errors of the processor, by the text the tests look for.
ErrCouldNotExtractHeaders == "could not extract headers"
ErrMissingHeader == "missing header"
ErrMultipleHeaders == "multiple tenant ID headers"
\* The error for a header that is present and empty.
ErrEmptyHeader == "empty header"

\* A request context: context.Background() carries no metadata at all;
\* metadata.NewIncomingContext carries a list of (name, value) headers.
Background == [ok |-> FALSE, md |-> << >>]
NewIncomingContext(md) == [ok |-> TRUE, md |-> md]

\* Header(name, value): one header of the metadata.
Header(name, value) == [name |-> name, value |-> value]

\* md.Get(name): the values of the headers with that name, in order.
RECURSIVE MDGet(_, _)
MDGet(md, name) ==
  IF Len(md) = 0 THEN << >>
  ELSE IF Head(md).name = name THEN << Head(md).value >> \o MDGet(Tail(md), name)
  ELSE MDGet(Tail(md), name)

\* The second validation, of the one header found: it is not empty.
NonEmptyHeader(headerValue) ==
  IF headerValue = "" THEN [err |-> ErrEmptyHeader, tenantID |-> ""]
  ELSE [err |-> NoError, tenantID |-> headerValue]

\* TenantIDOf with the first of several headers taken.
TenantIDOf_FirstWins(headers) ==
  IF Len(headers) = 0 THEN [err |-> ErrMissingHeader, tenantID |-> ""]
  ELSE NonEmptyHeader(headers[1])

\* The first validation, of the headers found under the configured name:
\* there is exactly one.
TenantIDOf(headers) ==
  IF Len(headers) = 0 THEN [err |-> ErrMissingHeader, tenantID |-> ""]
  ELSE IF Len(headers) > 1 THEN [err |-> ErrMultipleHeaders, tenantID |-> ""]
  ELSE NonEmptyHeader(headers[1])

\* The tenant of a request: the headers are extracted from the context, then
\* validated.
GetTenantID(ctx, headerName) ==
  IF ~ctx.ok THEN [err |-> ErrCouldNotExtractHeaders, tenantID |-> ""]
  ELSE TenantIDOf(MDGet(ctx.md, headerName))

\* SetTenant that leaves a value already there alone.
SetTenant_KeepsExisting(attributes, attrKey, tenantID) ==
  IF attrKey \in DOMAIN attributes THEN attributes
  ELSE MapPut(attributes, attrKey, tenantID)

\* attributes[tenantAttrKey] = tenantID on one attribute or label map.
SetTenant(attributes, attrKey, tenantID) == MapPut(attributes, attrKey, tenantID)

\* StampSpans that adds a span of its own to carry the tenant.
StampSpans_AddsSpan(spans, attrKey, tenantID) ==
  Append([i \in 1..Len(spans) |-> SetTenant(spans[i], attrKey, tenantID)],
         SetTenant(EmptyMap, attrKey, tenantID))

\* The walk over the spans of a traces batch (and over the datapoints of one
\* metric): every attribute map gets the tenant.
StampSpans(spans, attrKey, tenantID) ==
  [i \in 1..Len(spans) |-> SetTenant(spans[i], attrKey, tenantID)]

\* The walk over the metrics of a metrics batch, each a list of datapoints.
StampMetrics(metricsBatch, attrKey, tenantID) ==
  [i \in 1..Len(metricsBatch) |-> StampSpans(metricsBatch[i], attrKey, tenantID)]

\* ProcessTraces after the header validation: on an error the batch is
\* returned as it was, with the error; otherwise it is stamped.
ProcessTracesWith(traces, attrKey, t) ==
  IF t.err # NoError THEN [batch |-> traces, err |-> t.err]
  ELSE [batch |-> StampSpans(traces, attrKey, t.tenantID), err |-> NoError]

\* processor.ProcessTraces(ctx, traces).
ProcessTraces(ctx, traces) ==
  ProcessTracesWith(traces, defaultAttributeKey, GetTenantID(ctx, defaultHeaderName))

\* ProcessMetrics after the header validation.
ProcessMetricsWith(metricsBatch, attrKey, t) ==
  IF t.err # NoError THEN [batch |-> metricsBatch, err |-> t.err]
  ELSE [batch |-> StampMetrics(metricsBatch, attrKey, t.tenantID), err |-> NoError]

\* processor.ProcessMetrics(ctx, metrics).
ProcessMetrics(ctx, metricsBatch) ==
  ProcessMetricsWith(metricsBatch, defaultAttributeKey,
                     GetTenantID(ctx, defaultHeaderName))

\* ------------------------------------------------------------------------
\* Inputs: attribute keys, attribute values and rulesets
\* ------------------------------------------------------------------------

\* The most "name=value" pairs a form has.
MaxPairs == 2

\* The most RedactAttribute calls made on one attribute.
MaxCalls == 2

\* The pairs forms are made of: the parameter p (the one key rules name) and
\* the parameter u, with plain, empty, marker-valued and badly escaped values.
Segments ==
  { Str(<< "p", "=", "a" >>), Str(<< "p", "=" >>),
    Str(<< "p", "=", "*", "*", "*" >>),
    Str(<< "u", "=", "a" >>), Str(<< "u", "=", "s" >>),
    Str(<< "u", "=", "x", "s", "x" >>), Str(<< "u", "=", "%", "z" >>) }

\* Forms: up to MaxPairs pairs joined by "&" (the empty string included).
Forms ==
  UNION { { Join(t, << B["&"] >>) : t \in [1..n -> Segments] } : n \in 0..MaxPairs }

\* URLs: a head (scheme, host, path), an optional "?" and form, and a tail
\* (fragment); and URLs that url.Parse rejects (an invalid port).  The plain
\* shape comes with every form, the other with the forms of at most one pair.
PlainShape ==
  [head |-> Str(<< "h", "t", "t", "p", ":", "/", "/", "h", "/", "l" >>),
   tail |-> <<>>]

FullShape ==
  [head |-> Str(<< "H", "T", "T", "P", ":", "/", "/", "h", ":", "8", "/", "l" >>),
   tail |-> Str(<< "#", "f" >>)]

URLShapes == { PlainShape, FullShape }

ShortForms == { <<>> } \cup Segments

BadURLs ==
  { Str(<< "h", "t", "t", "p", ":", "/", "/", "x", ":", " ", "n" >>),
    Str(<< "h", "t", "t", "p", ":", "/", "/", "x", ":", " ", "n", "?", "p", "=", "a" >>) }

URLs ==
  { sh.head \o sh.tail : sh \in URLShapes }
  \cup { PlainShape.head \o << B["?"] >> \o form \o PlainShape.tail : form \in Forms }
  \cup { FullShape.head \o << B["?"] >> \o form \o FullShape.tail : form \in ShortForms }
  \cup BadURLs

\* Attribute keys: one that is not http.url for the URL-encoded filter; for
\* the key-value filter p, u and p behind the known prefix "x.".
FormKey == Str(<< "k" >>)
KeyValueKeys == { Str(<< "p" >>), Str(<< "u" >>), Str(<< "x", ".", "p" >>) }
KeyValueValues ==
  { <<>>, Str(<< "a" >>), Str(<< "s" >>), Str(<< "a", "b" >>),
    Str(<< "x", "s", "x" >>), Marker }

\* The attributes handed to a filter.
Inputs ==
     { [filter |-> "urlencoded", key |-> urlAttributeStr, value |-> v] :
         v \in URLs \cup { <<>> } }
  \cup { [filter |-> "urlencoded", key |-> FormKey, value |-> v] : v \in Forms }
  \cup { [filter |-> "keyvalue", key |-> k, value |-> v] :
           k \in KeyValueKeys, v \in KeyValueValues }

\* The most headers a request's metadata carries.
MaxHeaders == 2

\* The most spans of a traces batch, metrics of a metrics batch and
\* datapoints of a metric.
MaxSpans == 2

\* The headers requests carry: the tenant header with two tenants and with an
\* empty value, and a header of another name.
TenantHeaders ==
  { Header(defaultHeaderName, "jdoe"), Header(defaultHeaderName, "jdoe2"),
    Header(defaultHeaderName, ""), Header("x-other", "jdoe") }

\* The request contexts: without metadata, and with up to MaxHeaders headers.
Contexts ==
  { Background } \cup
  { NewIncomingContext(md) : md \in UNION { [1..n -> TenantHeaders] : n \in 0..MaxHeaders } }

\* The attribute map of a span (or the label map of a datapoint) as received:
\* without the tenant attribute, or with one set by somebody else.
ReceivedAttributes ==
  { MapPut(EmptyMap, "name", "operationA"),
    MapPut(MapPut(EmptyMap, "name", "operationA"), defaultAttributeKey, "old") }

\* Traces batches: up to MaxSpans spans.
TracesBatches == UNION { [1..n -> ReceivedAttributes] : n \in 0..MaxSpans }

\* A metric: up to MaxSpans datapoints with the same labels.
ReceivedMetrics ==
  { [i \in 1..n |-> l] : n \in 0..MaxSpans, l \in ReceivedAttributes }

\* Metrics batches: up to MaxSpans metrics.
MetricsBatches == UNION { [1..n -> ReceivedMetrics] : n \in 0..MaxSpans }

\* What a request delivers: a traces batch or a metrics batch.
Batches ==
  { [traces |-> t, metrics |-> << >>] : t \in TracesBatches } \cup
  { [traces |-> << >>, metrics |-> mb] : mb \in MetricsBatches }

\* The most RedactAttribute calls in flight at once.
MaxGoroutines == 2

\* The attributes concurrent calls are made on: two forms and a URL for the
\* URL-encoded filter, two attributes for the key-value filter.
ConcurrentInputs ==
  { [filter |-> "urlencoded", key |-> FormKey,
     value |-> Str(<< "u", "=", "s", "&", "p", "=", "a" >>)],
    [filter |-> "urlencoded", key |-> FormKey,
     value |-> Str(<< "p", "=", "&", "u", "=", "a" >>)],
    [filter |-> "urlencoded", key |-> urlAttributeStr,
     value |-> Str(<< "h", "t", "t", "p", ":", "/", "/", "h", "/", "l", "?",
                      "u", "=", "x", "s", "x", "&", "p", "=", "a" >>)],
    [filter |-> "keyvalue", key |-> Str(<< "p" >>), value |-> Str(<< "a" >>)],
    [filter |-> "keyvalue", key |-> Str(<< "u" >>), value |-> Str(<< "s" >>)] }

\* Rules.
Rule(anchored, lit, strategy, session) ==
  [pattern |-> [anchored |-> anchored, lit |-> lit], strategy |-> strategy,
   session |-> session]

ParamP == Str(<< "p" >>)

KeyRuleLists ==
  { <<>>,
    << Rule(TRUE, ParamP, "redact", TRUE) >>,
    << Rule(TRUE, ParamP, "hash", TRUE) >>,
    << Rule(TRUE, ParamP, "truncate", FALSE), Rule(TRUE, ParamP, "redact", TRUE) >> }

ValueRuleLists ==
  { <<>>,
    << Rule(TRUE, Str(<< "s" >>), "redact", FALSE) >>,
    << Rule(FALSE, Str(<< "s" >>), "redact", FALSE) >>,
    << Rule(TRUE, Str(<< "a" >>), "hash", FALSE),
       Rule(FALSE, Str(<< "s" >>), "truncate", FALSE) >> }

KnownPrefixes == { Str(<< "x", "." >>) }

\* The matchers NewMatcher builds from these rules.
Matchers ==
  { [keyRules |-> k, valueRules |-> v, prefixes |-> KnownPrefixes] :
      k \in KeyRuleLists, v \in ValueRuleLists }

\* ------------------------------------------------------------------------
\* State
\* ------------------------------------------------------------------------

VARIABLES
  filter,        \* which filter the attribute is handed to
  m,             \* the filter's matcher
  key,           \* the attribute's key
  value,         \* the attribute's string value (the filter rewrites it)
  written,       \* whether the last call set the attribute's value
  pre,           \* the attribute's value before the last call
  attr,          \* the manifest the last call returned
  newAttr,       \* the side attribute the last call returned
  err,           \* the error the last call returned
  matcherCalls,  \* the matcher calls the last call made
  calls,         \* the calls made on the attribute so far
  ctx,           \* the context of the request handed to the tenant processor
  traces,        \* the spans of the request's traces batch
  metrics,       \* the metrics of the request's metrics batch
  batchPre,      \* the two batches before the last call of the processor
  tenantErr,     \* the error the last call of the processor returned
  signal,        \* the last call of the processor: "traces", "metrics" or "none"
  tenantCalls,   \* the calls of the processor made so far
  goroutines     \* the RedactAttribute calls in flight, each with its attribute
                 \* and its local variables

filterVars ==
  << filter, m, key, value, written, pre, attr, newAttr, err, matcherCalls, calls >>
tenantVars == << ctx, traces, metrics, batchPre, tenantErr, signal, tenantCalls >>
vars == << filterVars, tenantVars, goroutines >>

\* No request has reached the tenant processor.
NoRequest ==
  /\ ctx = Background
  /\ traces = << >>
  /\ metrics = << >>
  /\ batchPre = [traces |-> << >>, metrics |-> << >>]
  /\ tenantErr = NoError
  /\ signal = "none"
  /\ tenantCalls = 0

\* No attribute has been handed to a filter.
NoAttribute ==
  /\ filter = "none"
  /\ m = [keyRules |-> << >>, valueRules |-> << >>, prefixes |-> {}]
  /\ key = << >>
  /\ value = << >>
  /\ written = FALSE
  /\ pre = << >>
  /\ attr = NilParsedAttribute
  /\ newAttr = NilAttribute
  /\ err = NoError
  /\ matcherCalls = 0
  /\ calls = 0

Init ==
  /\ \E in \in Inputs :
       /\ filter = in.filter
       /\ key = in.key
       /\ value = in.value
       /\ pre = in.value
  /\ m \in Matchers
  /\ written = FALSE
  /\ attr = NilParsedAttribute
  /\ newAttr = NilAttribute
  /\ err = NoError
  /\ matcherCalls = 0
  /\ calls = 0
  /\ NoRequest
  /\ goroutines = << >>

\* urlEncodedFilter.RedactAttribute on the attribute.
URLEncodedCall ==
  /\ filter = "urlencoded"
  /\ calls < MaxCalls
  /\ \E order \in IterationOrders(RangedParams(key, value)) :
       LET r == UrlEncodedRedactAttribute(m, key, value, order) IN
       /\ value' = r.value
       /\ written' = r.written
       /\ attr' = r.attr
       /\ err' = r.err
       /\ matcherCalls' = r.matcherCalls
  /\ newAttr' = NilAttribute
  /\ pre' = value
  /\ calls' = calls + 1
  /\ UNCHANGED << filter, m, key >>
  /\ UNCHANGED << tenantVars, goroutines >>

\* keyValueFilter.RedactAttribute on the attribute.
KeyValueCall ==
  /\ filter = "keyvalue"
  /\ calls < MaxCalls
  /\ LET r == KeyValueRedactAttribute(m, key, value) IN
       /\ value' = r.value
       /\ written' = r.written
       /\ attr' = r.attr
       /\ newAttr' = r.newAttr
       /\ err' = r.err
       /\ matcherCalls' = r.matcherCalls
  /\ pre' = value
  /\ calls' = calls + 1
  /\ UNCHANGED << filter, m, key >>
  /\ UNCHANGED << tenantVars, goroutines >>

Next == URLEncodedCall \/ KeyValueCall

Spec == Init /\ [][Next]_vars

\* A request reaches the tenant processor.
TenantInit ==
  /\ NoAttribute
  /\ ctx \in Contexts
  /\ \E b \in Batches :
       /\ traces = b.traces
       /\ metrics = b.metrics
       /\ batchPre = b
  /\ tenantErr = NoError
  /\ signal = "none"
  /\ tenantCalls = 0
  /\ goroutines = << >>

\* What a call of the processor leaves behind.
TenantReturns(tracesAfter, metricsAfter, errAfter, called) ==
  /\ traces' = tracesAfter
  /\ metrics' = metricsAfter
  /\ tenantErr' = errAfter
  /\ signal' = called
  /\ batchPre' = [traces |-> traces, metrics |-> metrics]
  /\ tenantCalls' = tenantCalls + 1
  /\ UNCHANGED ctx
  /\ UNCHANGED << filterVars, goroutines >>

TracesReturn(r) == TenantReturns(r.batch, metrics, r.err, "traces")
MetricsReturn(r) == TenantReturns(traces, r.batch, r.err, "metrics")

\* processor.ProcessTraces on the request's traces batch.
ProcessTracesCall ==
  /\ tenantCalls < MaxCalls
  /\ TracesReturn(ProcessTraces(ctx, traces))

\* processor.ProcessMetrics on the request's metrics batch.
ProcessMetricsCall ==
  /\ tenantCalls < MaxCalls
  /\ MetricsReturn(ProcessMetrics(ctx, metrics))

TenantNext == ProcessTracesCall \/ ProcessMetricsCall

TenantSpec == TenantInit /\ [][TenantNext]_vars

\* The matchers concurrent calls share: one key rule and one value rule.
ConcurrentMatchers ==
  { mm \in Matchers : Len(mm.keyRules) = 1 /\ Len(mm.valueRules) = 1 }

\* A call that has not started: its attribute, and the zero values of its
\* local variables and results.
NewGoroutine(in) ==
  [filter |-> in.filter, key |-> in.key, input |-> in.value, value |-> in.value,
   pc |-> "start", order |-> << >>, u |-> ZeroURL, params |-> EmptyMap,
   acc |-> EmptyAcc, redactedValue |-> << >>,
   attr |-> NilParsedAttribute, newAttr |-> NilAttribute, err |-> NoError]

\* Filters built on one matcher, and MaxGoroutines calls about to start, each
\* on an attribute of its own.
ConcurrentInit ==
  /\ filter = "none"
  /\ m \in ConcurrentMatchers
  /\ key = << >>
  /\ value = << >>
  /\ written = FALSE
  /\ pre = << >>
  /\ attr = NilParsedAttribute
  /\ newAttr = NilAttribute
  /\ err = NoError
  /\ matcherCalls = 0
  /\ calls = 0
  /\ NoRequest
  /\ \E ins \in [1..MaxGoroutines -> ConcurrentInputs] :
       goroutines = [g \in 1..MaxGoroutines |-> NewGoroutine(ins[g])]

\* A call returns.
Returned(t, attrOut, newAttrOut, errOut) ==
  [t EXCEPT !.pc = "done", !.attr = attrOut, !.newAttr = newAttrOut, !.err = errOut]

\* The URL-encoded call up to its loops: the early returns, or the parsed
\* form, v and attr as locals of the call.
Begun(t, isURLAttr, u, params, order) ==
  IF ParseFailed(isURLAttr, u, params)
  THEN Returned(t, NilParsedAttribute, NilAttribute, ErrUnprocessableValue)
  ELSE [t EXCEPT !.pc = "range", !.order = order, !.u = u.u,
                 !.params = params.m, !.acc = EmptyAcc]

BegunURL(t, isURLAttr, u, order) ==
  Begun(t, isURLAttr, u, ParsedForm(isURLAttr, u, t.value), order)

URLEncodedBegun(t, order) ==
  IF IsEmptyValue(t.value)
  THEN Returned(t, NilParsedAttribute, NilAttribute, NoError)
  ELSE BegunURL(t, t.key = urlAttributeStr, ParsedURL(t.key = urlAttributeStr, t.value),
                order)

\* StoreAcc with v and attr kept in the filter, one copy for all calls.
StoreAcc_InFilter(gs, g, acc) == [h \in DOMAIN gs |-> [gs[h] EXCEPT !.acc = acc]]

\* The writes of an iteration go to the call's own v and attr.
StoreAcc(gs, g, acc) == [gs EXCEPT ![g].acc = acc]

\* One iteration of range params in call g.
Visited(gs, g, t) ==
  StoreAcc([gs EXCEPT ![g].order = Tail(t.order)], g,
           ValuesLoop(m, t.key, t.key = urlAttributeStr, Head(t.order),
                      t.params[Head(t.order)], 0, t.acc))

\* The end of a call: its attribute is set and its results returned.
Ended(t, r) ==
  [t EXCEPT !.pc = "done", !.value = r.value, !.attr = r.attr, !.err = r.err]

\* The key-value call up to SetStringVal.
Matched(t, r) ==
  IF r.written
  THEN [t EXCEPT !.pc = "set", !.redactedValue = r.value, !.attr = r.attr,
                 !.newAttr = r.newAttr]
  ELSE Returned(t, r.attr, r.newAttr, r.err)

\* A step of a call changes that call only.
Step(g, t) ==
  /\ goroutines' = [goroutines EXCEPT ![g] = t]
  /\ UNCHANGED << filterVars, tenantVars >>

\* urlEncodedFilter.RedactAttribute, lines 30-57, in one of the calls.
URLEncodedBegin ==
  \E g \in DOMAIN goroutines :
    /\ goroutines[g].pc = "start"
    /\ goroutines[g].filter = "urlencoded"
    /\ \E order \in IterationOrders(RangedParams(goroutines[g].key, goroutines[g].value)) :
         Step(g, URLEncodedBegun(goroutines[g], order))

\* One iteration of the loop of lines 58-84 in one of the calls.
URLEncodedVisit ==
  \E g \in DOMAIN goroutines :
    /\ goroutines[g].pc = "range"
    /\ Len(goroutines[g].order) > 0
    /\ goroutines' = Visited(goroutines, g, goroutines[g])
    /\ UNCHANGED << filterVars, tenantVars >>

\* Lines 86-96 in one of the calls.
URLEncodedEnd ==
  \E g \in DOMAIN goroutines :
    /\ goroutines[g].pc = "range"
    /\ Len(goroutines[g].order) = 0
    /\ Step(g, Ended(goroutines[g],
                     RedactDone(goroutines[g].key = urlAttributeStr, goroutines[g].u,
                                goroutines[g].value, goroutines[g].acc)))

\* keyValueFilter.RedactAttribute up to SetStringVal in one of the calls.
KeyValueBegin ==
  \E g \in DOMAIN goroutines :
    /\ goroutines[g].pc = "start"
    /\ goroutines[g].filter = "keyvalue"
    /\ Step(g, Matched(goroutines[g],
                       KeyValueRedactAttribute(m, goroutines[g].key, goroutines[g].value)))

\* SetStringVal and the return of keyValueFilter.RedactAttribute.
KeyValueEnd ==
  \E g \in DOMAIN goroutines :
    /\ goroutines[g].pc = "set"
    /\ Step(g, [goroutines[g] EXCEPT !.pc = "done", !.value = goroutines[g].redactedValue])

ConcurrentNext ==
  URLEncodedBegin \/ URLEncodedVisit \/ URLEncodedEnd \/ KeyValueBegin \/ KeyValueEnd

ConcurrentSpec == ConcurrentInit /\ [][ConcurrentNext]_vars

\* ------------------------------------------------------------------------
\* Properties
\* ------------------------------------------------------------------------

\* The form a URL-encoded attribute value carries: the query of the URL for
\* http.url, the whole value otherwise.
QueryOf(str) == IF key = urlAttributeStr THEN Parse(str).u.RawQuery ELSE str

\* The parameters of the attribute before and after the last call.
InParams == ParseQuery(QueryOf(pre)).m
OutParams == ParseQuery(QueryOf(value))

\* The last call was a URL-encoded call that returned a manifest.
URLEncodedReturned == calls > 0 /\ filter = "urlencoded" /\ ~attr.nil

\* What the matcher answers for a parameter name and for a value.
ByKey(param, v) == FilterKeyRegexs(m, param, key, v, <<>>)
ByValue(v) == FilterStringValueRegexs(m, v, key, <<>>)
KeyRuleMatches(param) == \E i \in 1..Len(m.keyRules) : MatchString(m.keyRules[i].pattern, param)

\* Is value v of a parameter redacted, and what is emitted for it.
IsRedactedValue(param, v) == KeyRuleMatches(param) \/ ByValue(v).isRedacted
ExpectedValue(param, v) ==
  IF KeyRuleMatches(param) THEN ByKey(param, v).newValue
  ELSE IF ByValue(v).isRedacted THEN ByValue(v).newValue
  ELSE v

\* The index of the last redacted value among the values vs of a parameter,
\* 0 if none is.
LastRedacted(param, vs) ==
  LET hit == {i \in 1..Len(vs) : IsRedactedValue(param, vs[i])} IN
  IF hit = {} THEN 0 ELSE CHOOSE i \in hit : \A j \in hit : j <= i

\* C1: after a URL-encoded call that parsed its non-empty input, every value
\* of a parameter whose name matches a key rule is replaced in the outgoing
\* form by the rule's replacement and Redacted[key.param] holds the original
\* (last) value; a parameter matched by no key rule and no value rule keeps
\* its values; the outgoing form has the input's parameter names and the
\* input's number of values for each.
C1_KeyRuleRedaction ==
  URLEncodedReturned =>
    LET in == InParams
        out == OutParams
    IN  /\ out.ok
        /\ DOMAIN out.m = DOMAIN in
        /\ \A param \in DOMAIN in :
             /\ Len(out.m[param]) = Len(in[param])
             /\ KeyRuleMatches(param) =>
                  /\ \A i \in 1..Len(in[param]) :
                       out.m[param][i] = ByKey(param, in[param][i]).newValue
                  /\ Fqn(key, param) \in DOMAIN attr.Redacted.kv
                  /\ attr.Redacted.kv[Fqn(key, param)] = in[param][Len(in[param])]
             /\ (~KeyRuleMatches(param)
                 /\ \A i \in 1..Len(in[param]) : ~ByValue(in[param][i]).isRedacted)
                => out.m[param] = in[param]

\* C1 witness: a call redacted a parameter by key rule next to a parameter
\* that no rule matches.
C1_Witness ==
  /\ URLEncodedReturned
  /\ LET in == InParams
         out == OutParams
     IN  \E param, other \in DOMAIN in :
           /\ KeyRuleMatches(param)
           /\ Fqn(key, param) \in DOMAIN attr.Redacted.kv
           /\ out.m[param][1] # in[param][1]
           /\ ~KeyRuleMatches(other)
           /\ \A i \in 1..Len(in[other]) : ~ByValue(in[other][i]).isRedacted

\* C2: after a URL-encoded call, for a parameter no key rule matches, each
\* value a value rule matches is replaced in the outgoing form by the value
\* rules' replacement and each other value is emitted unchanged;
\* Redacted[key.param] holds the original of the (last) matched value; and
\* Flattened has an entry for every parameter of the form.
C2_ValueRuleRedaction ==
  URLEncodedReturned =>
    LET in == InParams
        out == OutParams
    IN  /\ DOMAIN attr.Flattened.kv = {Fqn(key, param) : param \in DOMAIN in}
        /\ \A param \in DOMAIN in :
             ~KeyRuleMatches(param) =>
               /\ param \in DOMAIN out.m
               /\ Len(out.m[param]) = Len(in[param])
               /\ \A i \in 1..Len(in[param]) :
                    out.m[param][i] =
                      IF ByValue(in[param][i]).isRedacted
                      THEN ByValue(in[param][i]).newValue
                      ELSE in[param][i]
               /\ LastRedacted(param, in[param]) > 0 =>
                    /\ Fqn(key, param) \in DOMAIN attr.Redacted.kv
                    /\ attr.Redacted.kv[Fqn(key, param)]
                         = in[param][LastRedacted(param, in[param])]

\* C2 witness: with no key rule in play, a call replaced a value by value
\* rule and emitted another value unchanged.
C2_Witness ==
  /\ URLEncodedReturned
  /\ Len(m.keyRules) = 0
  /\ LET in == InParams
         out == OutParams
     IN  \E param, other \in DOMAIN in :
           /\ ByValue(in[param][1]).isRedacted
           /\ out.m[param][1] = ByValue(in[param][1]).newValue
           /\ out.m[param][1] # in[param][1]
           /\ attr.Redacted.kv[Fqn(key, param)] = in[param][1]
           /\ \E i \in 1..Len(in[other]) :
                /\ ~ByValue(in[other][i]).isRedacted
                /\ out.m[other][i] = in[other][i]

\* The outgoing values a call is to emit for the values vs of a parameter.
ExpectedValues(param, vs) == [i \in 1..Len(vs) |-> ExpectedValue(param, vs[i])]

\* C3: after a URL-encoded call on http.url that redacted something, the
\* outgoing value parses as a URL with the scheme, host and path of the input
\* URL, its query holds the input's parameters with the redacted values
\* replaced, and the manifest's paths are "http.url." followed by the
\* parameter.
C3_URLFrame ==
  (URLEncodedReturned /\ key = urlAttributeStr /\ DOMAIN attr.Redacted.kv # {}) =>
    LET uin  == Parse(pre).u
        uout == Parse(value)
        in   == ParseQuery(uin.RawQuery).m
        out  == ParseQuery(uout.u.RawQuery)
    IN  /\ uout.ok
        /\ uout.u.Scheme = uin.Scheme
        /\ uout.u.Host = uin.Host
        /\ uout.u.Path = uin.Path
        /\ out.ok
        /\ out.m = [param \in DOMAIN in |-> ExpectedValues(param, in[param])]
        /\ DOMAIN attr.Flattened.kv = {urlAttributeStr \o << B["."] >> \o param : param \in DOMAIN in}
        /\ DOMAIN attr.Redacted.kv =
             {urlAttributeStr \o << B["."] >> \o param :
                param \in {q \in DOMAIN in : LastRedacted(q, in[q]) > 0}}

\* C3 witness: a call on an http.url value with a host, a path and two
\* parameters rewrote the query of the URL and nothing else.
C3_Witness ==
  /\ URLEncodedReturned
  /\ key = urlAttributeStr
  /\ DOMAIN attr.Redacted.kv # {}
  /\ value # pre
  /\ Len(Parse(pre).u.Host) > 0
  /\ Len(Parse(pre).u.Path) > 0
  /\ Cardinality(DOMAIN ParseQuery(Parse(pre).u.RawQuery).m) = 2
  /\ [Parse(value).u EXCEPT !.RawQuery = <<>>] = [Parse(pre).u EXCEPT !.RawQuery = <<>>]

\* Does the input of the last call fail to parse: as a URL for http.url, or
\* as a form.
InputUnparseable ==
  \/ key = urlAttributeStr /\ ~Parse(pre).ok
  \/ ~ParseQuery(QueryOf(pre)).ok

\* C4: a URL-encoded call whose non-empty input fails to parse returns
\* ErrUnprocessableValue and a nil manifest, and leaves the attribute's value
\* as it was.
C4_ParseFailure ==
  (calls > 0 /\ filter = "urlencoded" /\ Len(pre) > 0 /\ InputUnparseable) =>
    /\ err = ErrUnprocessableValue
    /\ attr.nil
    /\ value = pre

\* C4 witness: a call failed on a form in which a pair that a key rule
\* redacts stands next to a badly escaped pair.
C4_Witness ==
  /\ calls > 0
  /\ filter = "urlencoded"
  /\ err = ErrUnprocessableValue
  /\ \E param \in DOMAIN InParams : KeyRuleMatches(param)

\* C5: a call of either filter on an attribute whose value is empty returns
\* no manifest, no side attribute and no error, asks the matcher nothing, and
\* leaves the value empty.
C5_EmptyInput ==
  (calls > 0 /\ Len(pre) = 0) =>
    /\ attr.nil
    /\ newAttr.nil
    /\ err = NoError
    /\ matcherCalls = 0
    /\ Len(value) = 0

\* C5 witness: the key-value filter was called on an empty value under a key
\* that a key rule matches.
C5_Witness ==
  /\ calls > 0
  /\ Len(pre) = 0
  /\ filter = "keyvalue"
  /\ KeyRuleMatches(GetTruncatedKey(m, key))
  /\ attr.nil

\* C6: in every manifest the URL-encoded filter returns, the keys of Redacted
\* are keys of Flattened.
C6_FlattenSuperset ==
  URLEncodedReturned => DOMAIN attr.Redacted.kv \subseteq DOMAIN attr.Flattened.kv

\* C6 witness: a manifest with a redacted path and a flattened path that was
\* not redacted.
C6_Witness ==
  /\ URLEncodedReturned
  /\ DOMAIN attr.Redacted.kv # {}
  /\ DOMAIN attr.Redacted.kv # DOMAIN attr.Flattened.kv

\* C7 as stated: in every manifest the URL-encoded filter returns, for a
\* redacted path Redacted holds the original string and Flattened holds the
\* string written to the outgoing attribute in its place.
C7_ManifestValueRoles_Original ==
  URLEncodedReturned =>
    LET in == InParams
        out == OutParams
    IN  \A param \in DOMAIN in :
          Fqn(key, param) \in DOMAIN attr.Redacted.kv =>
            LET i == LastRedacted(param, in[param]) IN
            /\ i > 0
            /\ attr.Redacted.kv[Fqn(key, param)] = in[param][i]
            /\ attr.Flattened.kv[Fqn(key, param)] = out.m[param][i]

\* C7 as amended: for a redacted path Redacted holds the original string of
\* the (last) redacted value, and Flattened holds an original string too: the
\* parameter's last value as it was in the input, not its replacement.
C7_ManifestValueRoles ==
  URLEncodedReturned =>
    LET in == InParams IN
    \A param \in DOMAIN in :
      Fqn(key, param) \in DOMAIN attr.Redacted.kv =>
        LET i == LastRedacted(param, in[param]) IN
        /\ i > 0
        /\ attr.Redacted.kv[Fqn(key, param)] = in[param][i]
        /\ Fqn(key, param) \in DOMAIN attr.Flattened.kv
        /\ attr.Flattened.kv[Fqn(key, param)] = in[param][Len(in[param])]

\* C7 witness: a single-valued parameter was redacted; both maps hold its
\* original value, which differs from the value written out.
C7_Witness ==
  /\ URLEncodedReturned
  /\ LET in == InParams
         out == OutParams
     IN  \E param \in DOMAIN in :
           /\ Len(in[param]) = 1
           /\ Fqn(key, param) \in DOMAIN attr.Redacted.kv
           /\ attr.Redacted.kv[Fqn(key, param)] = in[param][1]
           /\ attr.Flattened.kv[Fqn(key, param)] = in[param][1]
           /\ out.m[param][1] # in[param][1]

\* C8 as stated: for a parameter with several values, Flattened holds its
\* last value and so does Redacted.
C8_LastWriteWins_Original ==
  URLEncodedReturned =>
    LET in == InParams IN
    \A param \in DOMAIN in :
      Len(in[param]) > 1 =>
        /\ Fqn(key, param) \in DOMAIN attr.Flattened.kv
        /\ attr.Flattened.kv[Fqn(key, param)] = in[param][Len(in[param])]
        /\ Fqn(key, param) \in DOMAIN attr.Redacted.kv =>
             attr.Redacted.kv[Fqn(key, param)] = in[param][Len(in[param])]

\* C8 as amended: for a parameter with several values, Flattened has one
\* entry per parameter and holds the parameter's last value; Redacted holds
\* the last of the values that were redacted, and nothing when none was.
C8_LastWriteWins ==
  URLEncodedReturned =>
    LET in == InParams IN
    /\ Cardinality(DOMAIN attr.Flattened.kv) = Cardinality(DOMAIN in)
    /\ \A param \in DOMAIN in :
         Len(in[param]) > 1 =>
           LET i == LastRedacted(param, in[param]) IN
           /\ Fqn(key, param) \in DOMAIN attr.Flattened.kv
           /\ attr.Flattened.kv[Fqn(key, param)] = in[param][Len(in[param])]
           /\ i = 0 => Fqn(key, param) \notin DOMAIN attr.Redacted.kv
           /\ i > 0 => /\ Fqn(key, param) \in DOMAIN attr.Redacted.kv
                       /\ attr.Redacted.kv[Fqn(key, param)] = in[param][i]

\* C8 witness: a parameter with two different values of which a value rule
\* redacted the first only; Redacted holds the first, Flattened the last.
C8_Witness ==
  /\ URLEncodedReturned
  /\ LET in == InParams IN
     \E param \in DOMAIN in :
       /\ Len(in[param]) = 2
       /\ in[param][1] # in[param][2]
       /\ LastRedacted(param, in[param]) = 1
       /\ attr.Redacted.kv[Fqn(key, param)] = in[param][1]
       /\ attr.Flattened.kv[Fqn(key, param)] = in[param][2]

\* C9: after a call that returned a manifest, no original value recorded in
\* Redacted occurs in what the attribute holds at that path: the values
\* emitted for the parameter, or the whole value for the key-value filter.
C9_NonLeakage ==
  (calls > 0 /\ ~attr.nil) =>
    IF filter = "keyvalue"
    THEN \A k \in DOMAIN attr.Redacted.kv : ~Contains(value, attr.Redacted.kv[k])
    ELSE LET out == OutParams IN
         \A param \in DOMAIN out.m :
           Fqn(key, param) \in DOMAIN attr.Redacted.kv =>
             \A i \in 1..Len(out.m[param]) :
               ~Contains(out.m[param][i], attr.Redacted.kv[Fqn(key, param)])

\* C10: a second call on the outgoing value of a first call leaves the value
\* as the first call left it.
C10_Idempotence == calls >= 2 => value = pre

\* What the key-value filter's last call met: a non-empty value, the key
\* rule that fires on the truncated key (0 when none does), and whether a
\* value rule matches the value.
KeyValueReturned == calls > 0 /\ filter = "keyvalue" /\ Len(pre) > 0
TruncatedKey == GetTruncatedKey(m, key)
FirstKeyRule(name) ==
  IF KeyRuleMatches(name)
  THEN CHOOSE i \in 1..Len(m.keyRules) :
         /\ MatchString(m.keyRules[i].pattern, name)
         /\ \A j \in 1..(i - 1) : ~MatchString(m.keyRules[j].pattern, name)
  ELSE 0
FiredKeyRule == FirstKeyRule(TruncatedKey)
OneEntry(k, v) == MakeMap(MapPut(EmptyMap, k, v))

\* C14: the key-value filter consults the key rules first, on the truncated
\* key, and the value rules only when no key rule matched; on a match the
\* value becomes the replacement and the manifest is Redacted = {full key ->
\* original} with Flattened absent; with no match the manifest is nil, there
\* is no error and the value is unchanged.
C14_KeyValueResult ==
  KeyValueReturned =>
    /\ err = NoError
    /\ FiredKeyRule > 0 =>
         /\ value = ApplyStrategy(m.keyRules[FiredKeyRule].strategy, pre)
         /\ matcherCalls = 2
    /\ (FiredKeyRule = 0 /\ ByValue(pre).isRedacted) =>
         /\ value = ByValue(pre).newValue
         /\ matcherCalls = 3
    /\ (FiredKeyRule > 0 \/ ByValue(pre).isRedacted) =>
         /\ ~attr.nil
         /\ attr.Redacted = OneEntry(key, pre)
         /\ attr.Flattened.nil
    /\ (FiredKeyRule = 0 /\ ~ByValue(pre).isRedacted) =>
         (attr.nil /\ value = pre)

\* A key rule fired on the truncated key of x.p although a value rule
\* matches the value too.
C14_Witness ==
  /\ KeyValueReturned
  /\ TruncatedKey # key
  /\ FiredKeyRule > 0
  /\ ByValue(pre).isRedacted
  /\ ByValue(pre).newValue # value
  /\ attr.Redacted = OneEntry(key, pre)

\* Whether the key rule that fired is a session rule.
SessionRuleFired ==
  KeyValueReturned /\ FiredKeyRule > 0 /\ m.keyRules[FiredKeyRule].session

ValuesOf(in) ==
  { v \in (DOMAIN in) \X (1..Len(pre)) : v[2] <= Len(in[v[1]]) }
KeyMatchedValuesOf(in) == { v \in ValuesOf(in) : KeyRuleMatches(v[1]) }

\* C16: in the URL-encoded filter a key rule that matches the parameter name
\* decides alone: the value emitted is what the first matching key rule's
\* strategy makes of the whole value, also when a value rule matches the
\* value, and the value rules are not asked for it (one matcher call for a
\* value decided by key, two for every other value).
C16_Precedence ==
  URLEncodedReturned =>
    LET in == InParams
        out == OutParams
    IN  /\ \A v \in KeyMatchedValuesOf(in) :
             out.m[v[1]][v[2]] =
               ApplyStrategy(m.keyRules[FirstKeyRule(v[1])].strategy, in[v[1]][v[2]])
        /\ matcherCalls =
             2 * Cardinality(ValuesOf(in)) - Cardinality(KeyMatchedValuesOf(in))

\* A value that a value rule matches was replaced by the key rule of its
\* parameter, and not by what the value rules make of it.
C16_Witness ==
  /\ URLEncodedReturned
  /\ LET in == InParams
         out == OutParams
     IN  \E v \in KeyMatchedValuesOf(in) :
           /\ ByValue(in[v[1]][v[2]]).isRedacted
           /\ out.m[v[1]][v[2]] # ByValue(in[v[1]][v[2]]).newValue
           /\ out.m[v[1]][v[2]] =
                ApplyStrategy(m.keyRules[FirstKeyRule(v[1])].strategy, in[v[1]][v[2]])
           /\ \E w \in ValuesOf(in) : ~KeyRuleMatches(w[1])

\* What the last URL-encoded call would have returned had the map iteration
\* yielded the parameters in the order given.
SameAsUnder(order) ==
  LET r == UrlEncodedRedactAttribute(m, key, pre, order)
  IN  value = r.value /\ attr = r.attr /\ err = r.err

\* C17: whatever order the parameters were visited in, the URL-encoded call
\* left the value, the manifest and the error that every other visiting order
\* gives; and a rewritten form lists the parameters sorted by name, each with
\* its values in input order.
C17_OrderIndependence ==
  (calls > 0 /\ filter = "urlencoded") =>
    /\ \A order \in IterationOrders(RangedParams(key, pre)) : SameAsUnder(order)
    /\ (~attr.nil /\ DOMAIN attr.Redacted.kv # {}) =>
         LET in == InParams
         IN  QueryOf(value) = Encode([param \in DOMAIN in |-> ExpectedValues(param, in[param])])

\* A form with two parameters, not sorted by name, was redacted and rewritten.
C17_Witness ==
  /\ calls > 0
  /\ filter = "urlencoded"
  /\ ~attr.nil
  /\ DOMAIN attr.Redacted.kv # {}
  /\ Cardinality(DOMAIN InParams) = 2
  /\ Cardinality(DOMAIN attr.Flattened.kv) = 2
  /\ HasPrefix(QueryOf(pre), << B["u"] >>)
  /\ HasPrefix(QueryOf(value), << B["p"] >>)

\* The last URL-encoded call parsed its input and no rule matched any
\* parameter or value of it.
NothingToRedact ==
  /\ calls > 0
  /\ filter = "urlencoded"
  /\ Len(pre) > 0
  /\ ~InputUnparseable
  /\ \A v \in ValuesOf(InParams) : ~IsRedactedValue(v[1], InParams[v[1]][v[2]])

\* C19: a URL-encoded call on an input that parses and that no rule matches
\* returns a manifest whose Redacted map is empty and not nil and whose
\* Flattened map has an entry for every parameter, and leaves the value as
\* received; and a call sets the value exactly when its Redacted map has an
\* entry.
C19_NothingToRedact ==
  /\ NothingToRedact =>
       /\ err = NoError
       /\ ~attr.nil
       /\ ~attr.Redacted.nil
       /\ DOMAIN attr.Redacted.kv = {}
       /\ ~attr.Flattened.nil
       /\ DOMAIN attr.Flattened.kv = { Fqn(key, param) : param \in DOMAIN InParams }
       /\ value = pre
  /\ (calls > 0 /\ filter = "urlencoded") =>
       /\ written <=> (~attr.nil /\ DOMAIN attr.Redacted.kv # {})
       /\ ~written => value = pre

\* A form that re-encoding would change (its parameters are not sorted) went
\* through a matcher with value rules, none of which matches it.
C19_Witness ==
  /\ NothingToRedact
  /\ Len(m.valueRules) > 0
  /\ Cardinality(DOMAIN InParams) = 2
  /\ ~attr.nil
  /\ ~written
  /\ value = pre
  /\ QueryOf(pre) # Encode(InParams)

\* ------------------------------------------------------------------------
\* Properties of the tenant processor (specification TenantSpec)
\* ------------------------------------------------------------------------

\* The processor was called; the headers its context carries under the
\* configured name; whether the context carries exactly one, not empty.
TenantCalled == signal # "none"
HeadersFound == MDGet(ctx.md, defaultHeaderName)
OneValidHeader == ctx.ok /\ Len(HeadersFound) = 1 /\ HeadersFound[1] # ""

\* The last call left both batches as they were.
Unstamped == traces = batchPre.traces /\ metrics = batchPre.metrics

\* C11 as stated: a call fails with ErrMissingHeader whenever the context
\* carries no header of the configured name, a context without any headers
\* included, and with ErrMultipleHeaders when it carries several; a failed
\* call stamps nothing.
C11_HeaderValidation_Original ==
  TenantCalled =>
    /\ Len(HeadersFound) = 0 => tenantErr = ErrMissingHeader
    /\ Len(HeadersFound) > 1 => tenantErr = ErrMultipleHeaders
    /\ tenantErr # NoError => Unstamped

\* C11: a call on a context without metadata fails with the error "could not
\* extract headers"; on a context with metadata it fails with
\* ErrMissingHeader when no header has the configured name and with
\* ErrMultipleHeaders when several have; a failed call stamps nothing.
C11_HeaderValidation ==
  TenantCalled =>
    /\ ~ctx.ok => tenantErr = ErrCouldNotExtractHeaders
    /\ (ctx.ok /\ Len(HeadersFound) = 0) => tenantErr = ErrMissingHeader
    /\ Len(HeadersFound) > 1 => tenantErr = ErrMultipleHeaders
    /\ tenantErr # NoError => Unstamped

\* A traces batch with spans was refused for its two tenant headers.
C11_Witness ==
  /\ signal = "traces"
  /\ Len(batchPre.traces) > 0
  /\ Len(HeadersFound) > 1
  /\ tenantErr = ErrMultipleHeaders
  /\ Unstamped

\* Whether an attribute (or label) map carries the tenant.
HasTenant(attributes, tenantID) ==
  defaultAttributeKey \in DOMAIN attributes /\ attributes[defaultAttributeKey] = tenantID

\* C12: with exactly one non-empty header of the configured name, after
\* ProcessTraces every span carries the header value as its tenant attribute,
\* whatever it carried before, and as many spans are stamped as the batch
\* had; after ProcessMetrics every datapoint of every metric carries it as a
\* label.
C12_TenantUniformity ==
  (TenantCalled /\ OneValidHeader) =>
    /\ tenantErr = NoError
    /\ signal = "traces" =>
         /\ Len(traces) = Len(batchPre.traces)
         /\ Cardinality({ i \in 1..Len(traces) : HasTenant(traces[i], HeadersFound[1]) })
              = Len(batchPre.traces)
    /\ signal = "metrics" =>
         /\ Len(metrics) = Len(batchPre.metrics)
         /\ \A i \in 1..Len(metrics) :
              /\ Len(metrics[i]) = Len(batchPre.metrics[i])
              /\ \A j \in 1..Len(metrics[i]) : HasTenant(metrics[i][j], HeadersFound[1])

\* A span that carried another tenant was stamped with the header's.
C12_Witness ==
  /\ signal = "traces"
  /\ OneValidHeader
  /\ tenantErr = NoError
  /\ \E i \in 1..Len(traces) :
       /\ HasTenant(batchPre.traces[i], "old")
       /\ HasTenant(traces[i], HeadersFound[1])

\* C13: with exactly one valid header, ProcessTraces on a batch without spans
\* and ProcessMetrics on a batch without metrics return no error and the
\* batch as it was.
C13_EmptyBatches ==
  (TenantCalled /\ OneValidHeader) =>
    /\ (signal = "traces" /\ Len(batchPre.traces) = 0) =>
         (tenantErr = NoError /\ traces = batchPre.traces)
    /\ (signal = "metrics" /\ Len(batchPre.metrics) = 0) =>
         (tenantErr = NoError /\ metrics = batchPre.metrics)

\* An empty traces batch went through with a valid header.
C13_Witness ==
  /\ signal = "traces"
  /\ OneValidHeader
  /\ Len(batchPre.traces) = 0
  /\ tenantErr = NoError
  /\ traces = << >>

\* ------------------------------------------------------------------------
\* Properties of concurrent calls (specification ConcurrentSpec)
\* ------------------------------------------------------------------------

\* The visiting orders call t can take, and what call t returns when it runs
\* alone on its attribute in one of them.
OrdersOf(t) ==
  IF t.filter = "urlencoded" THEN IterationOrders(RangedParams(t.key, t.input))
  ELSE { << >> }
RunAlone(t, order) ==
  IF t.filter = "urlencoded" THEN UrlEncodedRedactAttribute(m, t.key, t.input, order)
  ELSE KeyValueRedactAttribute(m, t.key, t.input)
SameAsAlone(t, r) ==
  /\ t.value = r.value
  /\ t.attr = r.attr
  /\ t.err = r.err
  /\ t.filter = "keyvalue" => t.newAttr = r.newAttr

\* C18: however the steps of concurrent calls interleave, a call that has
\* returned left the value, the manifest and the error it gives when run
\* alone on its attribute, and the attribute of a call that has not yet set
\* it still holds its input.
C18_Statelessness ==
  \A g \in DOMAIN goroutines :
    /\ goroutines[g].pc \in { "start", "range", "set" } =>
         goroutines[g].value = goroutines[g].input
    /\ goroutines[g].pc = "done" =>
         \A order \in OrdersOf(goroutines[g]) :
           SameAsAlone(goroutines[g], RunAlone(goroutines[g], order))

\* A URL-encoded call returned with a redacted value while another was in
\* the middle of its loop, one parameter visited and one to go.
C18_Witness ==
  \E g, h \in DOMAIN goroutines :
    /\ g # h
    /\ goroutines[g].pc = "done"
    /\ goroutines[g].filter = "urlencoded"
    /\ goroutines[g].value # goroutines[g].input
    /\ DOMAIN goroutines[g].attr.Redacted.kv # {}
    /\ goroutines[h].pc = "range"
    /\ Len(goroutines[h].order) = 1
    /\ DOMAIN goroutines[h].acc.Flattened # {}
====
